---- MODULE Spec2Model ----
(***************************************************************************)
(* A model of the AR shooter's game logic: DiscManager (the trophy field), *)
(* GestureDetector, HandTracker, ShootingSystem (aim assist), GameManager  *)
(* (round state machine), ScoreManager, and the handlers of main.ts.       *)
(*                                                                         *)
(* Units.  Numbers that the code keeps as fractions are kept as scaled     *)
(* integers.  Every time is in milliseconds: performance.now(), and also   *)
(* dt, elapsedTime, timeRemaining and a fragment's life, which the code    *)
(* holds in seconds (dt = 0.1 is 100).  A position on the screen is in     *)
(* tenths of a pixel and a velocity in tenths of a pixel per second; the   *)
(* screen size, the margins and the hit radii are whole pixels.  A combo   *)
(* multiplier and a tier speed multiplier are in tenths (1.5 is 15), a     *)
(* landmark coordinate in hundredths (0.5 is 50).                          *)
(***************************************************************************)
EXTENDS Integers, Sequences, FiniteSets, TLC

VARIABLES
    op,             \* history: the name of the last call made ("new" after construction)
    now,            \* performance.now(), milliseconds
    \* DiscManager
    trophies,       \* Trophy[]: records id, alive, screenX, screenY, velocity, radius, tier
    nextId,         \* id of the next trophy spawned
    fragments,      \* remaining life of every shatter fragment
    elapsedTime,    \* the time accumulated by update(dt)
    running,        \* history: TRUE between start() and dispose()
    dcall,          \* history: the point of the last checkHit and what it returned
    hitIds,         \* history: the ids of the trophies checkHit has returned, in order
    \* GestureDetector
    lastShotTime,
    gcall,          \* history: the last detect(): were the landmarks null, how many there
                    \* were, was the thumb bent, what it returned
    prevTrigTime,   \* history: time of the last detect() that returned triggered, -1 for none
    resetSince,     \* history: reset() was called since that detect()
    trigGap,        \* history: time between the last two triggered detect(), -1 for none
    trigGapReset,   \* history: reset() was called between those two
    runTrig,        \* history: triggered results in the current run of bent-thumb frames
    \* GameManager
    state,
    timeRemaining,
    overCalls,      \* history: how often the onGameOver callback has run
    mcall,          \* history: state and timeRemaining before the last GameManager call, its dt
    \* ScoreManager
    score,
    combo,
    maxCombo,
    lastHitTime,
    scall,          \* history: what the last hit() returned, the combo and the time since
                    \* the hit before it when it was called
    \* ShootingSystem
    isLocked,
    currentAim,     \* x and y in 1/AimDen of a tenth of a pixel
    acall,          \* history: the arguments of the last update() and what it returned
    \* main.ts: the variables of init() that the handlers share
    tapPosition,
    lastAim,
    lastTime,
    pistolHeldFrames,
    hitStopUntil,
    fcall,          \* history: the last frame of gameLoop (see FCall)
    pistolRun,      \* history: the frames in a row, up to the last one, that gameLoop ran
                    \* in IDLE with isPistol
    tapsPending,    \* history: the taps made while PLAYING since the last frame
    frameCount,
    \* HandTracker
    processing,
    latestResults,  \* the landmarks of the first hand of the results (see NullFrame)
    inFlight,       \* history: the frames sent whose processing has not ended
    sent            \* history: the frames sent

discVars == <<trophies, nextId, fragments, elapsedTime, running, dcall, hitIds>>
gestureVars == <<lastShotTime, gcall, prevTrigTime, resetSince, trigGap, trigGapReset, runTrig>>
gmVars == <<state, timeRemaining, overCalls, mcall>>
scoreVars == <<score, combo, maxCombo, lastHitTime, scall>>
aimVars == <<isLocked, currentAim, acall>>
loopVars == <<tapPosition, lastAim, lastTime, pistolHeldFrames, hitStopUntil, fcall, pistolRun,
              tapsPending>>
trackerVars == <<frameCount, processing, latestResults, inFlight, sent>>

vars == <<op, now, discVars, gestureVars, gmVars, scoreVars, aimVars, loopVars, trackerVars>>

-----------------------------------------------------------------------------
(* Bounds of the model                                                     *)

MaxId == 6              \* trophies spawned in one behaviour
MaxElapsed == 4000      \* the time update(dt) may add up to in one behaviour
MaxNow == 3000          \* the last clock reading, milliseconds
MaxRounds == 3          \* rounds started through GameManager in one behaviour
MaxScore == 6000        \* the highest score a hit may lead to
MaxGMHits == 2          \* hits scored in one round where the round state machine is explored
MaxLoopNow == 1240      \* the last clock reading where single frames are explored
MaxRoundsNow == 60500   \* the last clock reading where whole rounds are explored
MaxWaitTime == 300      \* whole rounds: the time spent outside the rounds
MaxTapTime == 200       \* whole rounds: taps come in the first and the last MaxTapTime ms of a round
MaxLoopScore == 200     \* single frames: the highest score a frame may lead to
MaxAssistElapsed == 700 \* assisted shots: the time update(dt) may add up to
MaxTrackerNow == 400    \* the last clock reading where the hand tracker is followed
MaxPendingTaps == 2     \* taps made between two frames of a round
MaxLiveNow == 63000     \* one round to its end: the last clock reading
MaxLiveWait == 100      \* one round to its end: the last clock reading outside the round
MaxLiveTapTime == 100   \* one round to its end: taps come while the timer is in its
                        \* first MaxLiveTapTime ms

(* Inputs                                                                  *)

Width == 200            \* SceneManager.getSize().width
Height == 200           \* SceneManager.getSize().height

\* update(dt): the frame times tried
DtSet == {1000}

\* The points a shot is tested at
QueryPoints == {<<1000, 1000>>, <<1000, 0>>}

\* GameManager.update(dt): the frame times tried
GMDtSet == {0, 1000, 25000, 70000}

\* The time between two calls, in milliseconds
GestureTicks == {250}
ScoreTicks == {1000}

\* hit(tierMultiplier): the values of TIER_SCORE
TierMults == {1, 2, 5}

\* The random draws of one spawnTrophy(): <<edge, r>> with edge the value of
\* Math.floor(Math.random() * 4) and r the draw of pickTier() in hundredths.
\* The other draws of a spawn are fixed: the point along the edge and the
\* target jitter are drawn as 1/2 (the middle of the edge, the centre of the
\* viewport) and the speed draw as 2/3.
SpawnDraws == {<<0, 30>>, <<1, 70>>, <<3, 90>>}

\* The draws tried where the round state machine is explored
GMSpawnDraws == {<<2, 30>>}

\* ShootingSystem.update(): the raw aim, the hand base and the discs tried.
\* The discs lie at whole distances from the raw aim: 0, 50 (twice), 74, 75,
\* 100, 149, 150 and 200 pixels
AimRaw == [some |-> TRUE, x |-> 1000, y |-> 1000]
AimBase == [some |-> TRUE, x |-> 1000, y |-> 1800]
AimDiscs == {[x |-> 1000, y |-> 1000], [x |-> 1300, y |-> 1400], [x |-> 1400, y |-> 1300],
             [x |-> 556, y |-> 408], [x |-> 1450, y |-> 400], [x |-> 400, y |-> 1800],
             [x |-> 1510, y |-> 2400], [x |-> 1900, y |-> 2200], [x |-> 2200, y |-> 2600]}
AimDiscLists == {<<>>} \cup {<<a>> : a \in AimDiscs} \cup {<<a, b>> : a, b \in AimDiscs}

-----------------------------------------------------------------------------
(* DiscManager: constants                                                  *)

TARGET_COUNT == 4
BASE_SPEED_MIN == 60
BASE_SPEED_MAX == 120
SPEED_RAMP_INTERVAL == 30
SPEED_RAMP_AMOUNT == 15
SPEED_RAMP_MAX == 80
SpawnMargin == 60       \* margin in spawnTrophy
DespawnMargin == 100    \* margin in update
FragLife == 800         \* life: 0.8

TIER_SPEED_MULT == [bronze |-> 10, silver |-> 12, gold |-> 15]    \* tenths
TIER_HIT_RADIUS == [bronze |-> 90, silver |-> 80, gold |-> 65]

Min(a, b) == IF a < b THEN a ELSE b
Max(a, b) == IF a > b THEN a ELSE b
Sign(a) == IF a > 0 THEN 1 ELSE IF a < 0 THEN -1 ELSE 0

\* getSpeedBonus(): Math.min(Math.floor(elapsedTime / 30) * 15, 80)
getSpeedBonus(elapsed) ==
    Min((elapsed \div (SPEED_RAMP_INTERVAL * 1000)) * SPEED_RAMP_AMOUNT, SPEED_RAMP_MAX)

\* pickTier(): the first tier of TIER_WEIGHTS whose threshold exceeds r
pickTier(r) ==
    IF r < 55 THEN "bronze"
    ELSE IF r < 85 THEN "silver"
    ELSE IF r < 100 THEN "gold"
    ELSE "bronze"

\* The trophy spawnTrophy() pushes, for the draws <<edge, r>>
NewTrophy(id, elapsed, draw) ==
    LET edge == draw[1]
        tier == pickTier(draw[2])
        startX == CASE edge = 0 -> 5 * Width
                    [] edge = 1 -> 10 * (Width + SpawnMargin)
                    [] edge = 2 -> 5 * Width
                    [] OTHER    -> -10 * SpawnMargin
        startY == CASE edge = 0 -> -10 * SpawnMargin
                    [] edge = 1 -> 5 * Height
                    [] edge = 2 -> 10 * (Height + SpawnMargin)
                    [] OTHER    -> 5 * Height
        targetX == 5 * Width
        targetY == 5 * Height
        dx == targetX - startX
        dy == targetY - startY
        bonus == getSpeedBonus(elapsed)
        \* BASE_SPEED_MIN + bonus + (2/3) * (BASE_SPEED_MAX - BASE_SPEED_MIN)
        baseSpeed == BASE_SPEED_MIN + bonus + (2 * (BASE_SPEED_MAX - BASE_SPEED_MIN)) \div 3
        \* baseSpeed * TIER_SPEED_MULT[tier], in tenths of a pixel per second
        speed == baseSpeed * TIER_SPEED_MULT[tier]
        \* one of dx, dy is 0 here, so dx / dist is the sign of dx
    IN  [id |-> id, alive |-> TRUE, screenX |-> startX, screenY |-> startY,
         velocity |-> [x |-> Sign(dx) * speed, y |-> Sign(dy) * speed],
         radius |-> TIER_HIT_RADIUS[tier], tier |-> tier]

\* The outcomes of calling spawnTrophy() until the array holds n trophies:
\* the set of <<trophies, nextId>> over the random draws
RECURSIVE SpawnUntil(_, _, _, _, _)
SpawnUntil(ts, id, elapsed, n, draws) ==
    IF Len(ts) >= n THEN {<<ts, id>>}
    ELSE UNION {SpawnUntil(Append(ts, NewTrophy(id, elapsed, d)), id + 1, elapsed, n, draws)
                : d \in draws}

AliveCount(ts) == Cardinality({i \in 1..Len(ts) : ts[i].alive})

NoHit == [hit |-> FALSE, x |-> 0, y |-> 0, tier |-> "none", id |-> -1]
DCall(x, y, ret) == [x |-> x, y |-> y, ret |-> ret]

-----------------------------------------------------------------------------
(* DiscManager: operations                                                 *)

\* start(): TARGET_COUNT times spawnTrophy(); nothing is cleared first
\* (the caller of DiscStart bounds nextId)
DiscStart(draws) ==
    /\ \E r \in SpawnUntil(trophies, nextId, elapsedTime, Len(trophies) + TARGET_COUNT, draws) :
          /\ trophies' = r[1]
          /\ nextId' = r[2]
    /\ running' = TRUE
    /\ dcall' = DCall(0, 0, NoHit)
    /\ UNCHANGED <<fragments, elapsedTime, hitIds>>

\* removeTrophy()
removeTrophy(t) == [t EXCEPT !.alive = FALSE]

\* The loop of update() over one trophy: move it, remove it when it has left
\* the viewport by more than the margin
MoveTrophy(t, dt) ==
    IF ~t.alive THEN t
    ELSE LET m == [t EXCEPT !.screenX = t.screenX + (t.velocity.x * dt) \div 1000,
                            !.screenY = t.screenY + (t.velocity.y * dt) \div 1000]
         IN  IF \/ m.screenX < -10 * DespawnMargin
                \/ m.screenX > 10 * (Width + DespawnMargin)
                \/ m.screenY < -10 * DespawnMargin
                \/ m.screenY > 10 * (Height + DespawnMargin)
             THEN removeTrophy(m)
             ELSE m

\* The fragment loop of update(): life -= dt, spliced out at life <= 0
UpdateFragments(fs, dt) ==
    LET aged == [i \in 1..Len(fs) |-> fs[i] - dt]
    IN  SelectSeq(aged, LAMBDA l : l > 0)

\* A filter that keeps the dead trophies too
IsAliveKeepAll(t) == TRUE

\* The predicate of trophies.filter((t) => t.alive)
IsAlive(t) == t.alive

\* The DiscManager as a record, for the handlers that make several calls
DiscNow ==
    [trophies |-> trophies, nextId |-> nextId, fragments |-> fragments,
     elapsedTime |-> elapsedTime, running |-> running, dcall |-> dcall, hitIds |-> hitIds]

DiscSet(d) ==
    /\ trophies' = d.trophies
    /\ nextId' = d.nextId
    /\ fragments' = d.fragments
    /\ elapsedTime' = d.elapsedTime
    /\ running' = d.running
    /\ dcall' = d.dcall
    /\ hitIds' = d.hitIds

\* update(dt) on the DiscManager d: the outcomes over the random draws
DiscAfterUpdate(d, dt, draws) ==
    LET moved == [i \in 1..Len(d.trophies) |-> MoveTrophy(d.trophies[i], dt)]
        kept  == SelectSeq(moved, IsAlive)
    IN  {[d EXCEPT !.trophies = r[1],
                   !.nextId = r[2],
                   !.elapsedTime = d.elapsedTime + dt,
                   !.fragments = UpdateFragments(d.fragments, dt),
                   !.dcall = DCall(0, 0, NoHit)]
           : r \in SpawnUntil(kept, d.nextId, d.elapsedTime + dt, TARGET_COUNT, draws)}

\* update(dt)
DiscUpdate(dt, draws) == \E d \in DiscAfterUpdate(DiscNow, dt, draws) : DiscSet(d)

\* Squared distance from the point (sx, sy), in tenths of a pixel like the
\* trophy's position.  Math.sqrt(dx*dx + dy*dy) is compared with < only, so the
\* squares compare as the roots do
Dist2(t, sx, sy) ==
    (sx - t.screenX) * (sx - t.screenX) + (sy - t.screenY) * (sy - t.screenY)

InRadius(t, sx, sy) == Dist2(t, sx, sy) < (10 * t.radius) * (10 * t.radius)

\* The loop body without "dist < closestDist": the last trophy in range wins
CheckHitStepAnyMatch(t, i, sx, sy, closest, closest2) ==
    IF ~t.alive THEN <<closest, closest2>>
    ELSE IF InRadius(t, sx, sy)
         THEN <<i, Dist2(t, sx, sy)>>
         ELSE <<closest, closest2>>

\* One iteration of the loop of checkHit over trophy t at index i: closest is
\* the index of the closest trophy so far (0: null, closestDist Infinity)
CheckHitStep(t, i, sx, sy, closest, closest2) ==
    IF ~t.alive THEN <<closest, closest2>>
    ELSE IF InRadius(t, sx, sy) /\ (closest = 0 \/ Dist2(t, sx, sy) < closest2)
         THEN <<i, Dist2(t, sx, sy)>>
         ELSE <<closest, closest2>>

\* The loop of checkHit: the index of the trophy it settles on, 0 for none
RECURSIVE CheckHitScan(_, _, _, _, _, _)
CheckHitScan(ts, sx, sy, i, closest, closest2) ==
    IF i > Len(ts) THEN closest
    ELSE LET c == CheckHitStep(ts[i], i, sx, sy, closest, closest2)
         IN  CheckHitScan(ts, sx, sy, i + 1, c[1], c[2])

\* A shatter that leaves the alive flag set
shatterTrophyStillAlive(t) == t

\* shatterTrophy(): alive = false and 8, 10 or 12 fragments
shatterTrophy(t) == [t EXCEPT !.alive = FALSE]

FragCount(tier) == IF tier = "gold" THEN 12 ELSE IF tier = "silver" THEN 10 ELSE 8

\* checkHit(screenX, screenY) on the DiscManager d; what it returns is d.dcall.ret
DiscAfterCheckHit(d, sx, sy) ==
    LET c == CheckHitScan(d.trophies, sx, sy, 1, 0, 0)
    IN  IF c = 0
        THEN [d EXCEPT !.dcall = DCall(sx, sy, NoHit)]
        ELSE [d EXCEPT !.dcall = DCall(sx, sy,
                                    [hit |-> TRUE, x |-> d.trophies[c].screenX,
                                     y |-> d.trophies[c].screenY, tier |-> d.trophies[c].tier,
                                     id |-> d.trophies[c].id]),
                       !.trophies = [d.trophies EXCEPT ![c] = shatterTrophy(d.trophies[c])],
                       !.fragments = d.fragments
                                       \o [k \in 1..FragCount(d.trophies[c].tier) |-> FragLife],
                       !.hitIds = Append(d.hitIds, d.trophies[c].id)]

\* checkHit(screenX, screenY)
DiscCheckHit(sx, sy) == DiscSet(DiscAfterCheckHit(DiscNow, sx, sy))

\* getDiscPositions(): the positions of the alive trophies
getDiscPositions(ts) ==
    LET alive == SelectSeq(ts, LAMBDA t : t.alive)
    IN  [i \in 1..Len(alive) |-> [x |-> alive[i].screenX, y |-> alive[i].screenY]]

\* A dispose() that leaves the fragments array as it is
DiscDisposeKeepsFragments ==
    /\ trophies' = <<>>
    /\ running' = FALSE
    /\ dcall' = DCall(0, 0, NoHit)
    /\ UNCHANGED <<fragments, nextId, elapsedTime, hitIds>>

\* dispose(): every trophy removed, both arrays emptied
DiscDispose ==
    /\ trophies' = <<>>
    /\ fragments' = <<>>
    /\ running' = FALSE
    /\ dcall' = DCall(0, 0, NoHit)
    /\ UNCHANGED <<nextId, elapsedTime, hitIds>>

-----------------------------------------------------------------------------
(* GestureDetector                                                         *)

SHOOT_COOLDOWN == 500
THUMB_BENT_ANGLE == 155

\* cos(155 degrees) squared, in ten-thousandths (0.82139...)
Cos2ThumbBent == 8214

\* A landmark, coordinates in hundredths
Pt(x, y, z) == [x |-> x, y |-> y, z |-> z]

\* landmarks[k] of a frame (the code counts from 0)
LM(lms, k) == lms[k + 1]

\* The landmark frames tried.  A frame is [isNull, lms]: null, or an array of
\* landmarks.  The hands differ in the thumb tip (4), the index tip (8) and the
\* tips of middle, ring and pinky (12, 16, 20).
Hand(thumbTip, indexTip, midTip, ringTip, pinkyTip) ==
    [isNull |-> FALSE,
     lms |-> << Pt(50, 80, 0),                                      \* 0 wrist
                Pt(45, 75, 0), Pt(40, 70, 0), Pt(35, 60, 0), thumbTip,
                Pt(50, 60, 0), Pt(50, 50, 0), Pt(50, 40, 0), indexTip,
                Pt(55, 62, 0), Pt(55, 52, 0), Pt(55, 45, 0), midTip,
                Pt(60, 65, 0), Pt(60, 55, 0), Pt(60, 50, 0), ringTip,
                Pt(65, 68, 0), Pt(65, 60, 0), Pt(65, 55, 0), pinkyTip >>]

ThumbStraight == Pt(30, 50, 0)      \* 180 degrees at the IP joint
ThumbSlack == Pt(31, 50, 0)         \* about 175 degrees
ThumbBent == Pt(45, 60, 0)          \* about 63 degrees
ThumbOnJoint == Pt(35, 60, 0)       \* the tip on the IP joint: no angle

PistolOpen == Hand(ThumbStraight, Pt(50, 30, 0), Pt(55, 65, 0), Pt(60, 67, 0), Pt(65, 70, 0))
PistolSlack == Hand(ThumbSlack, Pt(50, 30, 0), Pt(55, 65, 0), Pt(60, 67, 0), Pt(65, 70, 0))
PistolBent == Hand(ThumbBent, Pt(40, 30, -5), Pt(55, 65, 0), Pt(60, 35, 0), Pt(65, 45, 0))
PalmOpen == Hand(ThumbStraight, Pt(50, 30, 0), Pt(55, 30, 0), Pt(60, 35, 0), Pt(65, 45, 0))
FistBent == Hand(ThumbBent, Pt(50, 65, 0), Pt(55, 65, 0), Pt(60, 67, 0), Pt(65, 70, 0))
Degenerate == Hand(ThumbOnJoint, Pt(50, 30, 0), Pt(55, 65, 0), Pt(60, 67, 0), Pt(65, 70, 0))
NullFrame == [isNull |-> TRUE, lms |-> <<>>]
ShortFrame == [isNull |-> FALSE, lms |-> SubSeq(PistolBent.lms, 1, 20)]

Frames == {PistolOpen, PistolSlack, PistolBent, PalmOpen, FistBent, Degenerate,
           NullFrame, ShortFrame}

\* dist3D(a, b), squared: the code compares distances only
Dist3D2(a, b) ==
    (a.x - b.x) * (a.x - b.x) + (a.y - b.y) * (a.y - b.y) + (a.z - b.z) * (a.z - b.z)

\* tipW < pipW * 1.15, on the squares (1.15 squared is 1.3225)
Curled(tip2, pip2) == tip2 * 10000 < pip2 * 13225

\* angleAtJoint(a, b, c) < THUMB_BENT_ANGLE.  The angle is acos of the clamped
\* cosine dot / (mag1 * mag2), so it is below 155 degrees exactly when the
\* cosine exceeds cos(155 degrees) = -0.9063; a magnitude below 0.0001 (on
\* landmarks in hundredths: two equal points) gives 180 degrees.
ThumbAngleBelowBent(a, b, c) ==
    LET v1 == Pt(a.x - b.x, a.y - b.y, a.z - b.z)
        v2 == Pt(c.x - b.x, c.y - b.y, c.z - b.z)
        dot == v1.x * v2.x + v1.y * v2.y + v1.z * v2.z
        mag1sq == v1.x * v1.x + v1.y * v1.y + v1.z * v1.z
        mag2sq == v2.x * v2.x + v2.y * v2.y + v2.z * v2.z
    IN  IF mag1sq = 0 \/ mag2sq = 0 THEN FALSE
        ELSE dot >= 0 \/ dot * dot * 10000 < Cos2ThumbBent * mag1sq * mag2sq

\* A cooldown test that always passes
CooldownAlways(t, last) == TRUE

\* now - this.lastShotTime > SHOOT_COOLDOWN
CooldownOver(t, last) == t - last > SHOOT_COOLDOWN

NoPos == [some |-> FALSE, x |-> 0, y |-> 0]
Pos(x, y) == [some |-> TRUE, x |-> x, y |-> y]

\* (1 - landmark.x) * screenWidth, landmark.y * screenHeight, in tenths of a
\* pixel: exact, the landmark being in hundredths
ToScreen(p) == Pos(((100 - p.x) * Width) \div 10, (p.y * Height) \div 10)

\* A result for a missing hand that reports a pulled trigger
noGestureTriggered == [isPistol |-> FALSE, aimPosition |-> NoPos, handBase |-> NoPos,
                       triggered |-> TRUE]

\* const noGesture
noGesture == [isPistol |-> FALSE, aimPosition |-> NoPos, handBase |-> NoPos,
              triggered |-> FALSE]

\* Is the frame one that detect() classifies (not null, 21 landmarks)
HasHand(f) == ~f.isNull /\ Len(f.lms) >= 21

\* What detect() works out from the landmarks of a frame with a hand: the
\* pistol shape, the two screen positions and thumbAngle < THUMB_BENT_ANGLE
Classify(f) ==
    LET lms == f.lms
        wrist == LM(lms, 0)
        idxTipW == Dist3D2(LM(lms, 8), wrist)
        idxPipW == Dist3D2(LM(lms, 6), wrist)
        midTipW == Dist3D2(LM(lms, 12), wrist)
        midPipW == Dist3D2(LM(lms, 10), wrist)
        ringTipW == Dist3D2(LM(lms, 16), wrist)
        ringPipW == Dist3D2(LM(lms, 14), wrist)
        pinkyTipW == Dist3D2(LM(lms, 20), wrist)
        pinkyPipW == Dist3D2(LM(lms, 18), wrist)
        indexExtended == idxTipW > idxPipW
        curledCount == (IF Curled(midTipW, midPipW) THEN 1 ELSE 0)
                       + (IF Curled(ringTipW, ringPipW) THEN 1 ELSE 0)
                       + (IF Curled(pinkyTipW, pinkyPipW) THEN 1 ELSE 0)
    IN  [isPistol |-> indexExtended /\ curledCount >= 1,
         aimPosition |-> ToScreen(LM(lms, 8)),
         handBase |-> ToScreen(LM(lms, 0)),
         thumbBent |-> ThumbAngleBelowBent(LM(lms, 2), LM(lms, 3), LM(lms, 4))]

\* Classify, worked out once for every frame with a hand
FrameClass == [f \in {h \in Frames : HasHand(h)} |-> Classify(f)]

\* The thumb of the frame is bent (angle below 155 degrees)
FrameBent(f) == HasHand(f) /\ FrameClass[f].thumbBent

\* detect(landmarks, screenWidth, screenHeight) at time t with lastShotTime last
DetectResult(f, t, last) ==
    IF ~HasHand(f) THEN noGesture
    ELSE [isPistol |-> FrameClass[f].isPistol,
          aimPosition |-> FrameClass[f].aimPosition,
          handBase |-> FrameClass[f].handBase,
          triggered |-> FrameClass[f].thumbBent /\ CooldownOver(t, last)]

\* detect(landmarks, screenWidth, screenHeight) called at time t
GestureDetectAt(f, t) ==
    LET r == DetectResult(f, t, lastShotTime)
        bent == FrameBent(f)
    IN  /\ lastShotTime' = IF r.triggered THEN t ELSE lastShotTime
        /\ gcall' = [bent |-> bent, isNull |-> f.isNull, len |-> Len(f.lms), ret |-> r]
        /\ prevTrigTime' = IF r.triggered THEN t ELSE prevTrigTime
        /\ resetSince' = IF r.triggered THEN FALSE ELSE resetSince
        /\ trigGap' = IF r.triggered /\ prevTrigTime >= 0 THEN t - prevTrigTime ELSE trigGap
        /\ trigGapReset' = IF r.triggered /\ prevTrigTime >= 0 THEN resetSince ELSE trigGapReset
        /\ runTrig' = IF bent THEN runTrig + (IF r.triggered THEN 1 ELSE 0) ELSE 0

GestureDetect(f) == GestureDetectAt(f, now)

\* reset()
GestureReset ==
    /\ lastShotTime' = 0
    /\ resetSince' = TRUE
    /\ runTrig' = 0
    /\ UNCHANGED <<gcall, prevTrigTime, trigGap, trigGapReset>>

-----------------------------------------------------------------------------
(* HandTracker.  initialize() has been awaited before the first frame, so   *)
(* this.hands is set.  A frame passed to hands.send() is being processed    *)
(* until the library calls onResults for it or the send fails               *)

DETECTION_INTERVAL == 2

\* A detect() without the test of this.processing
HandDetectUnthrottled ==
    /\ processing' = TRUE
    /\ inFlight' = inFlight + 1
    /\ sent' = sent + 1

\* detect(video)
HandDetect ==
    IF processing
    THEN UNCHANGED <<processing, inFlight, sent>>
    ELSE /\ processing' = TRUE
         /\ inFlight' = inFlight + 1
         /\ sent' = sent + 1

\* The callback of hands.onResults, called with the landmarks f
HandResults(f) ==
    /\ latestResults' = f
    /\ processing' = FALSE
    /\ inFlight' = inFlight - 1
    /\ UNCHANGED <<frameCount, sent>>

\* hands.send() rejects: the catch of detect()
HandSendFails ==
    /\ processing' = FALSE
    /\ inFlight' = inFlight - 1
    /\ UNCHANGED <<frameCount, sent, latestResults>>

-----------------------------------------------------------------------------
(* ShootingSystem: the magnetic aim assist of update()                     *)

AIM_ASSIST_RADIUS == 150
AIM_ASSIST_STRENGTH == 45       \* 0.45, in hundredths

\* The aim update() returns is held exactly, as a count of 1/AimDen of a tenth
\* of a pixel: pullStrength = 0.45 * (1 - dist / 150) is
\* AIM_ASSIST_STRENGTH * (10 * AIM_ASSIST_RADIUS - dist) / AimDen for a dist in
\* tenths of a pixel
AimDen == 1000 * AIM_ASSIST_RADIUS

\* The largest r in lo..hi with r * r <= n
RECURSIVE SqrtSearch(_, _, _)
SqrtSearch(n, lo, hi) ==
    IF lo >= hi THEN lo
    ELSE LET mid == (lo + hi + 1) \div 2
         IN  IF mid * mid <= n THEN SqrtSearch(n, mid, hi) ELSE SqrtSearch(n, lo, mid - 1)

\* Math.sqrt(n) for n below the square of the assist radius: exact when the
\* distance is a whole number of tenths of a pixel, the tenth below otherwise
Sqrt(n) == SqrtSearch(n, 0, 10 * AIM_ASSIST_RADIUS)

\* dx * dx + dy * dy of the loop of update()
AimDist2(raw, disc) ==
    (raw.x - disc.x) * (raw.x - disc.x) + (raw.y - disc.y) * (raw.y - disc.y)

\* The state of the loop of update(): aim in 1/AimDen, closest2 the square of
\* closestDist (-1: Infinity)
AimStart(raw) ==
    [x |-> raw.x * AimDen, y |-> raw.y * AimDen, locked |-> FALSE, closest2 |-> -1]

\* The loop body without "dist < closestDist": the last disc in range pulls
AimStepAnyInRange(raw, disc, acc) ==
    LET d2 == AimDist2(raw, disc)
    IN  IF d2 < (10 * AIM_ASSIST_RADIUS) * (10 * AIM_ASSIST_RADIUS)
        THEN LET pull == AIM_ASSIST_STRENGTH * (10 * AIM_ASSIST_RADIUS - Sqrt(d2))
             IN  [x |-> raw.x * AimDen + (disc.x - raw.x) * pull,
                  y |-> raw.y * AimDen + (disc.y - raw.y) * pull,
                  locked |-> d2 < (5 * AIM_ASSIST_RADIUS) * (5 * AIM_ASSIST_RADIUS),
                  closest2 |-> d2]
        ELSE acc

\* One iteration of the loop of update() over a disc
AimStep(raw, disc, acc) ==
    LET d2 == AimDist2(raw, disc)
    IN  IF /\ d2 < (10 * AIM_ASSIST_RADIUS) * (10 * AIM_ASSIST_RADIUS)
           /\ (acc.closest2 < 0 \/ d2 < acc.closest2)
        THEN LET pull == AIM_ASSIST_STRENGTH * (10 * AIM_ASSIST_RADIUS - Sqrt(d2))
             IN  [x |-> raw.x * AimDen + (disc.x - raw.x) * pull,
                  y |-> raw.y * AimDen + (disc.y - raw.y) * pull,
                  locked |-> d2 < (5 * AIM_ASSIST_RADIUS) * (5 * AIM_ASSIST_RADIUS),
                  closest2 |-> d2]
        ELSE acc

\* The loop of update() from disc i on
RECURSIVE AimScan(_, _, _, _)
AimScan(raw, discs, i, acc) ==
    IF i > Len(discs) THEN acc
    ELSE AimScan(raw, discs, i + 1, AimStep(raw, discs[i], acc))

\* What update() returns: null, or the aim in 1/AimDen of a tenth of a pixel
AimResult(rawAim, handBase, discs) ==
    IF ~rawAim.some \/ ~handBase.some THEN NoPos
    ELSE LET a == AimScan(rawAim, discs, 1, AimStart(rawAim))
         IN  Pos(a.x, a.y)

ACall(rawAim, handBase, discs, ret) ==
    [rawAim |-> rawAim, handBase |-> handBase, discs |-> discs, ret |-> ret]

\* update(rawAim, handBase, discPositions)
ShootingUpdate(rawAim, handBase, discs) ==
    /\ acall' = ACall(rawAim, handBase, discs, AimResult(rawAim, handBase, discs))
    /\ IF ~rawAim.some \/ ~handBase.some
       THEN UNCHANGED <<isLocked, currentAim>>
       ELSE LET a == AimScan(rawAim, discs, 1, AimStart(rawAim))
            IN  /\ isLocked' = a.locked
                /\ currentAim' = [x |-> a.x, y |-> a.y]

\* hide(): the crosshair and the laser line are hidden, no field of the aim changes
ShootingHide == UNCHANGED aimVars

-----------------------------------------------------------------------------
(* ScoreManager                                                            *)

comboTimeout == 2000
basePoints == 100

\* getMultiplier() with > for >=
getMultiplierOffByOne(c) ==
    IF c > 20 THEN 50
    ELSE IF c > 10 THEN 30
    ELSE IF c > 5 THEN 20
    ELSE IF c > 3 THEN 15
    ELSE 10

\* getMultiplier(), in tenths
getMultiplier(c) ==
    IF c >= 20 THEN 50
    ELSE IF c >= 10 THEN 30
    ELSE IF c >= 5 THEN 20
    ELSE IF c >= 3 THEN 15
    ELSE 10

\* Math.round(num / den) for den > 0: the nearest integer, halves upwards
Round(num, den) == (2 * num + den) \div (2 * den)

\* Math.round(basePoints * multiplier * tierMultiplier), multiplier in tenths
Points(mult10, tierMultiplier) == Round(basePoints * mult10 * tierMultiplier, 10)

\* this.score = points
ScoreAssigned(s, points) == points

\* this.score += points
ScoreAdded(s, points) == s + points

NoScoreRet == [points |-> 0, combo |-> 0, multiplier |-> 0, comboBefore |-> 0, gap |-> 0]

\* The ScoreManager as a record, for the handlers that make several calls
ScoreNow ==
    [score |-> score, combo |-> combo, maxCombo |-> maxCombo,
     lastHitTime |-> lastHitTime, scall |-> scall]

ScoreSet(s) ==
    /\ score' = s.score
    /\ combo' = s.combo
    /\ maxCombo' = s.maxCombo
    /\ lastHitTime' = s.lastHitTime
    /\ scall' = s.scall

\* hit(tierMultiplier) at time t on the ScoreManager s; what it returns is s.scall
ScoreAfterHit(s, t, tierMultiplier) ==
    LET c0 == IF t - s.lastHitTime > comboTimeout /\ s.combo > 0 THEN 0 ELSE s.combo
        c1 == c0 + 1
        multiplier == getMultiplier(c1)
        points == Points(multiplier, tierMultiplier)
    IN  [score |-> ScoreAdded(s.score, points),
         combo |-> c1,
         maxCombo |-> IF c1 > s.maxCombo THEN c1 ELSE s.maxCombo,
         lastHitTime |-> t,
         scall |-> [points |-> points, combo |-> c1, multiplier |-> multiplier,
                    comboBefore |-> s.combo, gap |-> t - s.lastHitTime]]

\* hit(tierMultiplier)
ScoreHit(tierMultiplier) == ScoreSet(ScoreAfterHit(ScoreNow, now, tierMultiplier))

\* A miss() that clears maxCombo with the combo
ScoreAfterMissClearsMax(s) == [s EXCEPT !.combo = 0, !.maxCombo = 0]

\* miss() on the ScoreManager s
ScoreAfterMiss(s) == [s EXCEPT !.combo = 0]

\* miss()
ScoreMiss == ScoreSet(ScoreAfterMiss(ScoreNow))

\* isComboActive() at time t on the ScoreManager s
isComboActive(s, t) == s.combo > 0 /\ t - s.lastHitTime < comboTimeout

\* A reset() that keeps maxCombo
ScoreResetKeepsMax ==
    /\ score' = 0
    /\ combo' = 0
    /\ maxCombo' = maxCombo
    /\ lastHitTime' = 0
    /\ UNCHANGED scall

\* reset()
ScoreReset ==
    /\ score' = 0
    /\ combo' = 0
    /\ maxCombo' = 0
    /\ lastHitTime' = 0
    /\ UNCHANGED scall

-----------------------------------------------------------------------------
(* GameManager                                                             *)

ROUND_DURATION == 60

\* this.timeRemaining -= dt, without the clamp
TimeAfterUnclamped(t, dt) == t - dt

\* update(): this.timeRemaining -= dt, set to 0 when it is <= 0
TimeAfter(t, dt) == IF t - dt <= 0 THEN 0 ELSE t - dt

\* A guard of endGame() that always returns early
EndGameAllowedNever(s) == FALSE

\* A guard of endGame() that lets it run again after the round is over
EndGameAllowedTwice(s) == s # "IDLE"

\* endGame(): if (this.state !== 'PLAYING') return
EndGameAllowed(s) == s = "PLAYING"

MCall(from, time, dt) == [from |-> from, time |-> time, dt |-> dt]

\* The onGameOver callback main.ts registers: shows the game-over screen
OnGameOver == overCalls' = overCalls + 1

\* A guard of startGame() that never returns early
StartGameIgnoredNever(s) == FALSE

\* startGame(): if (this.state === 'PLAYING') return
StartGameIgnored(s) == s = "PLAYING"

\* startGame(): also scoreManager.reset() and discManager.start()
GMStartGame(draws) ==
    IF StartGameIgnored(state)
    THEN UNCHANGED <<state, timeRemaining, overCalls, scoreVars, discVars>>
    ELSE /\ state' = "PLAYING"
         /\ timeRemaining' = 1000 * ROUND_DURATION
         /\ ScoreReset
         /\ DiscStart(draws)
         /\ UNCHANGED overCalls

\* endGame()
GMEndGame ==
    IF ~EndGameAllowed(state)
    THEN UNCHANGED <<state, overCalls>>
    ELSE /\ state' = "GAME_OVER"
         /\ OnGameOver

\* update(dt)
GMUpdate(dt) ==
    IF state # "PLAYING"
    THEN UNCHANGED <<state, timeRemaining, overCalls>>
    ELSE /\ timeRemaining' = TimeAfter(timeRemaining, dt)
         /\ IF timeRemaining - dt <= 0
            THEN GMEndGame
            ELSE UNCHANGED <<state, overCalls>>

\* restart()
GMRestart ==
    /\ state' = "IDLE"
    /\ UNCHANGED <<timeRemaining, overCalls>>

-----------------------------------------------------------------------------
(* main.ts: shoot(), gameLoop() and the pointerdown handler                *)

\* What is kept of a frame of gameLoop: the state it found, whether it was
\* frozen by a hit stop, its dt, and the point and the outcome of every shoot()
\* it made
FCall(st, frozen, dt, shots) == [state |-> st, frozen |-> frozen, dt |-> dt, shots |-> shots]

NoFrame == FCall("IDLE", FALSE, 0, <<>>)

HIT_STOP_DURATION == 60
TIER_SCORE == [gold |-> 5, silver |-> 2, bronze |-> 1]
MaxFrameDt == 100           \* dt = Math.min((now - lastTime) / 1000, 0.1)
LoadTime == 1000            \* performance.now() when init() ran, where it is not 0
StartHoldFrames == 8        \* pistolHeldFrames >= 8

\* The aim update() returned, as shoot() passes it to checkHit(): to the tenth
\* of a pixel below
AimToScreen(p) == Pos(p.x \div AimDen, p.y \div AimDen)

\* What shoot() works on: the DiscManager, the ScoreManager and hitStopUntil;
\* shots collects what every shoot() of the frame did
World(d, s, h, shots) == [disc |-> d, score |-> s, hitStopUntil |-> h, shots |-> shots]

\* A shoot() that starts the hit stop on a miss too
shootFreezeAlways(w, t, x, y) ==
    LET d == DiscAfterCheckHit(w.disc, x, y)
        hit == d.dcall.ret
    IN  IF hit.hit
        THEN LET s == ScoreAfterHit(w.score, t, TIER_SCORE[hit.tier])
             IN  World(d, s, t + HIT_STOP_DURATION,
                       Append(w.shots, [hit |-> TRUE, tier |-> hit.tier, id |-> hit.id,
                                        points |-> s.scall.points,
                                        multiplier |-> s.scall.multiplier,
                                        x |-> x, y |-> y]))
        ELSE World(d, ScoreAfterMiss(w.score), t + HIT_STOP_DURATION,
                   Append(w.shots, [hit |-> FALSE, tier |-> "none", id |-> -1,
                                    points |-> 0, multiplier |-> 0, x |-> x, y |-> y]))

\* shoot(x, y) at time t
shoot(w, t, x, y) ==
    LET d == DiscAfterCheckHit(w.disc, x, y)
        hit == d.dcall.ret
    IN  IF hit.hit
        THEN LET s == ScoreAfterHit(w.score, t, TIER_SCORE[hit.tier])
             IN  World(d, s, t + HIT_STOP_DURATION,
                       Append(w.shots, [hit |-> TRUE, tier |-> hit.tier, id |-> hit.id,
                                        points |-> s.scall.points,
                                        multiplier |-> s.scall.multiplier,
                                        x |-> x, y |-> y]))
        ELSE World(d, ScoreAfterMiss(w.score), w.hitStopUntil,
                   Append(w.shots, [hit |-> FALSE, tier |-> "none", id |-> -1,
                                    points |-> 0, multiplier |-> 0, x |-> x, y |-> y]))

\* The IDLE branch of gameLoop: a pistol held for 8 frames starts the game
LoopIdle(g, draws) ==
    LET held == IF g.isPistol THEN pistolHeldFrames + 1 ELSE Max(0, pistolHeldFrames - 1)
    IN  /\ IF held >= StartHoldFrames
           THEN /\ pistolHeldFrames' = 0
                /\ GMStartGame(draws)
                /\ mcall' = MCall(state, timeRemaining, 0)
           ELSE /\ pistolHeldFrames' = held
                /\ UNCHANGED <<gmVars, scoreVars, discVars>>
        /\ IF g.aimPosition.some /\ g.handBase.some
           THEN ShootingUpdate(g.aimPosition, g.handBase, <<>>)
           ELSE ShootingHide
        /\ UNCHANGED <<tapPosition, hitStopUntil, tapsPending>>

\* The GAME_OVER branch of gameLoop
LoopGameOver ==
    /\ ShootingHide
    /\ UNCHANGED <<gmVars, scoreVars, discVars, tapPosition, pistolHeldFrames, hitStopUntil,
                   tapsPending>>

\* The PLAYING branch of gameLoop at time t: the shot of the gesture, the shot
\* of the tap, then the updates unless the frame is frozen
LoopPlaying(g, aimNow, t, dt, frozen, draws) ==
    LET finalAim == AimResult(g.aimPosition, g.handBase, getDiscPositions(trophies))
        aim == IF finalAim.some THEN AimToScreen(finalAim) ELSE aimNow
        w0 == World(DiscNow, ScoreNow, hitStopUntil, <<>>)
        w1 == IF g.triggered /\ aim.some THEN shoot(w0, t, aim.x, aim.y) ELSE w0
        w2 == IF tapPosition.some THEN shoot(w1, t, tapPosition.x, tapPosition.y) ELSE w1
    IN  /\ ShootingUpdate(g.aimPosition, g.handBase, getDiscPositions(trophies))
        /\ tapPosition' = NoPos
        /\ tapsPending' = 0
        /\ ScoreSet(w2.score)
        /\ hitStopUntil' = w2.hitStopUntil
        /\ fcall' = FCall(state, frozen, dt, w2.shots)
        /\ IF frozen
           THEN /\ DiscSet(w2.disc)
                /\ UNCHANGED gmVars
           ELSE /\ GMUpdate(dt)
                /\ mcall' = MCall(state, timeRemaining, dt)
                /\ \E d \in DiscAfterUpdate(w2.disc, dt, draws) : DiscSet(d)
        /\ UNCHANGED pistolHeldFrames

\* One frame of gameLoop, interval after the clock reading before it; f is
\* results?.multiHandLandmarks?.[0] ?? null for the results of
\* handTracker.getResults()
GameLoop(interval, f, draws) ==
    LET t == now + interval
        dt == Min(t - lastTime, MaxFrameDt)
        g == DetectResult(f, t, lastShotTime)
        aimNow == IF g.aimPosition.some THEN g.aimPosition ELSE lastAim
    IN  /\ now' = t
        /\ lastTime' = t
        /\ GestureDetectAt(f, t)
        /\ lastAim' = aimNow
        /\ pistolRun' = IF state = "IDLE" /\ g.isPistol THEN pistolRun + 1 ELSE 0
        /\ frameCount' = frameCount + 1
        /\ IF (frameCount + 1) % DETECTION_INTERVAL = 0
           THEN HandDetect
           ELSE UNCHANGED <<processing, inFlight, sent>>
        /\ UNCHANGED latestResults
        /\ CASE state = "IDLE" ->
                  /\ LoopIdle(g, draws)
                  /\ fcall' = FCall(state, FALSE, dt, <<>>)
             [] state = "GAME_OVER" ->
                  /\ LoopGameOver
                  /\ fcall' = FCall(state, FALSE, dt, <<>>)
             [] OTHER ->
                  LoopPlaying(g, aimNow, t, dt, t < hitStopUntil, draws)

\* The pointerdown handler, for a tap at p
PointerDown(p, draws) ==
    CASE state = "IDLE" ->
           /\ GMStartGame(draws)
           /\ mcall' = MCall(state, timeRemaining, 0)
           /\ UNCHANGED <<gestureVars, aimVars, loopVars, trackerVars>>
      [] state = "GAME_OVER" ->
           /\ GMRestart
           /\ mcall' = MCall(state, timeRemaining, 0)
           /\ DiscDispose
           /\ GestureReset
           /\ UNCHANGED <<scoreVars, aimVars, loopVars, trackerVars>>
      [] OTHER ->
           /\ tapPosition' = p
           /\ tapsPending' = tapsPending + 1
           /\ UNCHANGED <<discVars, gestureVars, gmVars, scoreVars, aimVars, trackerVars,
                          lastAim, lastTime, pistolHeldFrames, hitStopUntil, fcall, pistolRun>>

-----------------------------------------------------------------------------
(* The state after construction                                            *)

\* init() run at the clock reading t0
InitAt(t0) ==
    /\ op = "new"
    /\ now = t0
    /\ trophies = <<>>
    /\ nextId = 0
    /\ fragments = <<>>
    /\ elapsedTime = 0
    /\ running = FALSE
    /\ dcall = DCall(0, 0, NoHit)
    /\ hitIds = <<>>
    /\ lastShotTime = 0
    /\ gcall = [bent |-> FALSE, isNull |-> TRUE, len |-> 0, ret |-> noGesture]
    /\ prevTrigTime = -1
    /\ resetSince = FALSE
    /\ trigGap = -1
    /\ trigGapReset = FALSE
    /\ runTrig = 0
    /\ state = "IDLE"
    /\ timeRemaining = 1000 * ROUND_DURATION
    /\ overCalls = 0
    /\ mcall = MCall("IDLE", 1000 * ROUND_DURATION, 0)
    /\ score = 0
    /\ combo = 0
    /\ maxCombo = 0
    /\ lastHitTime = 0
    /\ scall = NoScoreRet
    /\ isLocked = FALSE
    /\ currentAim = [x |-> 0, y |-> 0]
    /\ acall = ACall(NoPos, NoPos, <<>>, NoPos)
    /\ tapPosition = NoPos
    /\ lastAim = NoPos
    /\ lastTime = t0
    /\ pistolHeldFrames = 0
    /\ hitStopUntil = 0
    /\ fcall = NoFrame
    /\ pistolRun = 0
    /\ tapsPending = 0
    /\ frameCount = 0
    /\ processing = FALSE
    /\ latestResults = NullFrame
    /\ inFlight = 0
    /\ sent = 0

\* The page loaded at clock reading 0
Init == InitAt(0)

\* The page loaded when the clock read LoadTime: more than the shot cooldown
\* after the time origin
InitLoaded == InitAt(LoadTime)

\* Time passes between two calls: performance.now() never goes back
ClockTick(d) ==
    /\ now + d <= MaxNow
    /\ now' = now + d
    /\ op' = "tick"
    /\ UNCHANGED <<discVars, gestureVars, gmVars, scoreVars, aimVars, loopVars, trackerVars>>

-----------------------------------------------------------------------------
(* DiscManager as main.ts drives it: start() when a round starts, update   *)
(* and checkHit while it runs, dispose() when the player restarts          *)

DStart ==
    /\ ~running
    /\ nextId + TARGET_COUNT <= MaxId
    /\ DiscStart(SpawnDraws)
    /\ op' = "start"
    /\ UNCHANGED <<now, aimVars, loopVars, trackerVars, gestureVars, gmVars, scoreVars>>

DUpdate ==
    /\ running
    /\ \E dt \in DtSet :
          /\ elapsedTime + dt <= MaxElapsed
          /\ DiscUpdate(dt, SpawnDraws)
    /\ nextId' <= MaxId
    /\ op' = "update"
    /\ UNCHANGED <<now, aimVars, loopVars, trackerVars, gestureVars, gmVars, scoreVars>>

DCheckHit ==
    /\ running
    /\ \E p \in QueryPoints : DiscCheckHit(p[1], p[2])
    /\ op' = "checkHit"
    /\ UNCHANGED <<now, aimVars, loopVars, trackerVars, gestureVars, gmVars, scoreVars>>

DDispose ==
    /\ running
    /\ DiscDispose
    /\ op' = "dispose"
    /\ UNCHANGED <<now, aimVars, loopVars, trackerVars, gestureVars, gmVars, scoreVars>>

NextDisc == DStart \/ DUpdate \/ DCheckHit \/ DDispose

SpecDisc == Init /\ [][NextDisc]_vars

-----------------------------------------------------------------------------
(* GestureDetector: detect() on any frame at any time, and reset()         *)

GTick == \E d \in GestureTicks : ClockTick(d)

GDetect ==
    /\ \E f \in Frames : GestureDetect(f)
    /\ op' = "detect"
    /\ UNCHANGED <<now, aimVars, loopVars, trackerVars, discVars, gmVars, scoreVars>>

GReset ==
    /\ GestureReset
    /\ op' = "gestureReset"
    /\ UNCHANGED <<now, aimVars, loopVars, trackerVars, discVars, gmVars, scoreVars>>

NextGesture == GTick \/ GDetect \/ GReset

SpecGesture == Init /\ [][NextGesture]_vars

-----------------------------------------------------------------------------
(* GameManager: any sequence of startGame, update, endGame and restart     *)

MStartGame ==
    /\ state = "PLAYING" \/ nextId + TARGET_COUNT <= MaxRounds * TARGET_COUNT
    /\ GMStartGame(GMSpawnDraws)
    /\ mcall' = MCall(state, timeRemaining, 0)
    /\ op' = "startGame"
    /\ UNCHANGED <<now, aimVars, loopVars, trackerVars, gestureVars>>

MUpdate ==
    /\ \E dt \in GMDtSet :
          /\ GMUpdate(dt)
          /\ mcall' = MCall(state, timeRemaining, dt)
    /\ op' = "gmUpdate"
    /\ UNCHANGED <<now, aimVars, loopVars, trackerVars, discVars, gestureVars, scoreVars>>

MEndGame ==
    /\ GMEndGame
    /\ mcall' = MCall(state, timeRemaining, 0)
    /\ op' = "endGame"
    /\ UNCHANGED <<now, aimVars, loopVars, trackerVars, timeRemaining, discVars,
                   gestureVars, scoreVars>>

MRestart ==
    /\ GMRestart
    /\ mcall' = MCall(state, timeRemaining, 0)
    /\ op' = "restart"
    /\ UNCHANGED <<now, aimVars, loopVars, trackerVars, discVars, gestureVars, scoreVars>>

\* A hit scored while the state machine is driven (the ScoreManager is shared)
MHit ==
    /\ maxCombo < MaxGMHits
    /\ ScoreHit(1)
    /\ op' = "hit"
    /\ UNCHANGED <<now, aimVars, loopVars, trackerVars, discVars, gestureVars, gmVars>>

NextGM == MStartGame \/ MUpdate \/ MEndGame \/ MRestart \/ MHit

SpecGM == Init /\ [][NextGM]_vars

-----------------------------------------------------------------------------
(* ScoreManager: any sequence of hit, miss and reset, at any times         *)

STick == \E d \in ScoreTicks : ClockTick(d)

SHit ==
    /\ \E tm \in TierMults :
          /\ score + Points(getMultiplier(combo + 1), tm) <= MaxScore
          /\ ScoreHit(tm)
    /\ op' = "hit"
    /\ UNCHANGED <<now, aimVars, loopVars, trackerVars, discVars, gestureVars, gmVars>>

SMiss ==
    /\ ScoreMiss
    /\ op' = "miss"
    /\ UNCHANGED <<now, aimVars, loopVars, trackerVars, discVars, gestureVars, gmVars>>

SReset ==
    /\ ScoreReset
    /\ op' = "reset"
    /\ UNCHANGED <<now, aimVars, loopVars, trackerVars, discVars, gestureVars, gmVars>>

NextScore == STick \/ SHit \/ SMiss \/ SReset

SpecScore == Init /\ [][NextScore]_vars

-----------------------------------------------------------------------------
(* ShootingSystem: update() on any aim, hand base and discs                *)

AUpdate ==
    /\ \E raw \in {NoPos, AimRaw}, base \in {NoPos, AimBase}, discs \in AimDiscLists :
          ShootingUpdate(raw, base, discs)
    /\ op' = "aimUpdate"
    /\ UNCHANGED <<now, discVars, gestureVars, gmVars, scoreVars, loopVars, trackerVars>>

NextAim == AUpdate

SpecAim == Init /\ [][NextAim]_vars

-----------------------------------------------------------------------------
(* shoot() on the field of a round that has just started                    *)

\* The points shot at: on the top, the right and the left edge of the screen,
\* each 60 px from where the trophies of that edge spawn
ShootPoints == {Pos(1000, 0), Pos(2000, 1000), Pos(0, 1000)}

ShStart ==
    /\ state = "IDLE"
    /\ nextId + TARGET_COUNT <= MaxId
    /\ GMStartGame(SpawnDraws)
    /\ mcall' = MCall(state, timeRemaining, 0)
    /\ op' = "startGame"
    /\ UNCHANGED <<now, gestureVars, aimVars, loopVars, trackerVars>>

ShShoot ==
    /\ state = "PLAYING"
    /\ \E p \in ShootPoints :
          LET w == shoot(World(DiscNow, ScoreNow, hitStopUntil, <<>>), now, p.x, p.y)
          IN  /\ DiscSet(w.disc)
              /\ ScoreSet(w.score)
              /\ hitStopUntil' = w.hitStopUntil
              /\ fcall' = FCall(state, FALSE, 0, w.shots)
    /\ op' = "shoot"
    /\ UNCHANGED <<now, gestureVars, gmVars, aimVars, trackerVars, tapPosition, lastAim,
                   lastTime, pistolHeldFrames, pistolRun, tapsPending>>

NextShoot == ShStart \/ ShShoot

SpecShoot == Init /\ [][NextShoot]_vars

-----------------------------------------------------------------------------
(* A shot by gesture: the aim assist, then checkHit at the aim it returns   *)

\* Spawns tried: a gold trophy coming in from the top, a bronze one from the
\* bottom, both on the vertical centre line; frames of 100 ms; aims on that
\* line, at the centre of the viewport and 14 px below it
AssistDraws == {<<0, 90>>, <<2, 30>>}
AssistDts == {100}
AssistAims == {Pos(1000, 1000), Pos(1000, 1140)}

AsStart ==
    /\ ~running
    /\ nextId + TARGET_COUNT <= MaxId
    /\ DiscStart(AssistDraws)
    /\ op' = "start"
    /\ UNCHANGED <<now, aimVars, loopVars, trackerVars, gestureVars, gmVars, scoreVars>>

AsUpdate ==
    /\ running
    /\ \E dt \in AssistDts :
          /\ elapsedTime + dt <= MaxAssistElapsed
          /\ DiscUpdate(dt, AssistDraws)
    /\ nextId' <= MaxId
    /\ op' = "update"
    /\ UNCHANGED <<now, aimVars, loopVars, trackerVars, gestureVars, gmVars, scoreVars>>

\* const finalAim = shootingSystem.update(...); shoot(aim.x, aim.y) as far as
\* its checkHit(x, y)
AsShot ==
    /\ running
    /\ \E raw \in AssistAims :
          LET discs == getDiscPositions(trophies)
              aim == AimToScreen(AimResult(raw, AimBase, discs))
          IN  /\ ShootingUpdate(raw, AimBase, discs)
              /\ DiscCheckHit(aim.x, aim.y)
    /\ op' = "assistShot"
    /\ UNCHANGED <<now, loopVars, trackerVars, gestureVars, gmVars, scoreVars>>

NextAssist == AsStart \/ AsUpdate \/ AsShot

SpecAssist == Init /\ [][NextAssist]_vars

-----------------------------------------------------------------------------
(* The game as main.ts runs it, frame by frame                             *)

\* gameLoop, single frames: 50 frames a second, a hand that is absent or is
\* a pistol with the thumb pulled, one kind of spawn (a bronze trophy coming
\* in from the top), taps at a point 100 px below where it spawns: out of its
\* hit radius of 90 px until it has moved for six frames
LoopIntervals == {20}
LoopFrames == {NullFrame, PistolBent}
LoopTaps == {Pos(1000, 400)}
LoopSpawnDraws == {<<0, 30>>}

\* gameLoop, whole rounds: 10 frames a second (dt at its cap), no hand in
\* view, taps on the bottom edge of the screen, one kind of spawn
RoundIntervals == {100}
RoundFrames == {NullFrame}
RoundTaps == {Pos(1000, 2000)}
RoundSpawnDraws == {<<2, 30>>}

LFrame ==
    /\ \E i \in LoopIntervals, f \in LoopFrames :
          /\ now + i <= MaxLoopNow
          /\ GameLoop(i, f, LoopSpawnDraws)
    /\ score' <= MaxLoopScore
    /\ op' = "frame"

LPointerDown ==
    /\ state = "PLAYING" => tapsPending < MaxPendingTaps
    /\ \E p \in LoopTaps : PointerDown(p, LoopSpawnDraws)
    /\ op' = "pointerdown"
    /\ UNCHANGED now

NextLoop == LFrame \/ LPointerDown

SpecLoop == InitLoaded /\ [][NextLoop]_vars

-----------------------------------------------------------------------------
(* The frames of gameLoop with the HandTracker they feed and read: results  *)
(* arrive, or a send fails, at any moment between two frames                *)

\* What the results hold: no hand, or an open hand (not a pistol)
TrackerFrames == {NullFrame, PalmOpen}

KFrame ==
    /\ \E i \in LoopIntervals :
          /\ now + i <= MaxTrackerNow
          /\ GameLoop(i, latestResults, LoopSpawnDraws)
    /\ op' = "frame"

KResults ==
    /\ inFlight > 0
    /\ \E f \in TrackerFrames : HandResults(f)
    /\ op' = "results"
    /\ UNCHANGED <<now, discVars, gestureVars, gmVars, scoreVars, aimVars, loopVars>>

KSendFails ==
    /\ inFlight > 0
    /\ HandSendFails
    /\ op' = "sendFails"
    /\ UNCHANGED <<now, discVars, gestureVars, gmVars, scoreVars, aimVars, loopVars>>

NextTracker == KFrame \/ KResults \/ KSendFails

SpecTracker == Init /\ [][NextTracker]_vars

-----------------------------------------------------------------------------
(* The game as main.ts runs it, over whole rounds                          *)

RFrame ==
    /\ \E i \in RoundIntervals, f \in RoundFrames :
          /\ now + i <= MaxRoundsNow
          /\ state # "PLAYING" => now + i - elapsedTime <= MaxWaitTime
          /\ GameLoop(i, f, RoundSpawnDraws)
    /\ op' = "frame"

RPointerDown ==
    /\ state = "PLAYING" => tapsPending < MaxPendingTaps
    /\ state = "PLAYING" => \/ timeRemaining > 1000 * ROUND_DURATION - MaxTapTime
                            \/ timeRemaining <= MaxTapTime
    /\ \E p \in RoundTaps : PointerDown(p, RoundSpawnDraws)
    /\ op' = "pointerdown"
    /\ UNCHANGED now

NextRounds == RFrame \/ RPointerDown

SpecRounds == Init /\ [][NextRounds]_vars

-----------------------------------------------------------------------------
(* The game as main.ts runs it, one round to its end: gameLoop ends with    *)
(* requestAnimationFrame(gameLoop), so there is always a next frame         *)

\* 20 frames a second: a hit stop of 60 ms freezes the frame after the hit
LiveIntervals == {50}

VFrame ==
    /\ \E i \in LiveIntervals, f \in RoundFrames :
          /\ now + i <= (IF state = "PLAYING" THEN MaxLiveNow ELSE MaxLiveWait)
          /\ GameLoop(i, f, RoundSpawnDraws)
    /\ op' = "frame"

VPointerDown ==
    /\ state = "IDLE" => now <= MaxLiveWait
    /\ state = "PLAYING" => /\ tapsPending < MaxPendingTaps
                            /\ timeRemaining > 1000 * ROUND_DURATION - MaxLiveTapTime
    /\ \E p \in RoundTaps : PointerDown(p, RoundSpawnDraws)
    /\ op' = "pointerdown"
    /\ UNCHANGED now

NextLive == VFrame \/ VPointerDown

\* What VFrame does to the clock.  VFrame is the one action that moves the
\* clock, and gameLoop has no path that fails to end: a frame can run whenever
\* the clock may still advance
VFrameClock ==
    \E i \in LiveIntervals :
       /\ now + i <= (IF state = "PLAYING" THEN MaxLiveNow ELSE MaxLiveWait)
       /\ now' = now + i

\* Frames keep coming: every frame ends with requestAnimationFrame(gameLoop)
SpecLive == Init /\ [][NextLive]_vars /\ WF_now(VFrameClock)

-----------------------------------------------------------------------------
(* Claims about DiscManager                                                *)

\* C1: once started, the number of alive trophies never exceeds TARGET_COUNT,
\* and right after every update(dt) it is exactly TARGET_COUNT
C1_Population ==
    running =>
        /\ AliveCount(trophies) <= TARGET_COUNT
        /\ (op = "update" => AliveCount(trophies) = TARGET_COUNT)

\* an update has just replenished the population after a hit
C1_Witness ==
    /\ running
    /\ op = "update"
    /\ nextId > TARGET_COUNT
    /\ hitIds # <<>>
    /\ AliveCount(trophies) = TARGET_COUNT

\* The alive trophies that have the point strictly inside their own radius
Candidates(ts, sx, sy) ==
    {i \in 1..Len(ts) : ts[i].alive /\ InRadius(ts[i], sx, sy)}

\* C2: checkHit returns no hit when no alive trophy has the point strictly
\* inside its radius; otherwise it returns position and tier of a candidate at
\* the smallest distance and marks exactly that trophy not alive
C2_ClosestWins ==
    [][op' = "checkHit" =>
        LET sx == dcall'.x
            sy == dcall'.y
            cands == Candidates(trophies, sx, sy)
        IN  IF cands = {}
            THEN ~dcall'.ret.hit /\ trophies' = trophies
            ELSE \E i \in cands :
                    /\ \A j \in cands : Dist2(trophies[i], sx, sy) <= Dist2(trophies[j], sx, sy)
                    /\ dcall'.ret.hit
                    /\ dcall'.ret.x = trophies[i].screenX
                    /\ dcall'.ret.y = trophies[i].screenY
                    /\ dcall'.ret.tier = trophies[i].tier
                    /\ trophies' = [trophies EXCEPT ![i].alive = FALSE]
    ]_vars

\* a hit at a point that also lies inside the radius of a second trophy,
\* farther away, which stays alive
C2_Witness ==
    /\ op = "checkHit"
    /\ dcall.ret.hit
    /\ \E i \in Candidates(trophies, dcall.x, dcall.y) :
          Dist2(trophies[i], dcall.x, dcall.y)
             > (dcall.x - dcall.ret.x) * (dcall.x - dcall.ret.x)
               + (dcall.y - dcall.ret.y) * (dcall.y - dcall.ret.y)

\* C3: over its whole lifetime a trophy is returned by checkHit at most once
C3_NoDoubleAward ==
    \A i, j \in 1..Len(hitIds) : hitIds[i] = hitIds[j] => i = j

\* a hit test at a point inside the radius of a trophy that was shot before
\* and is still in the array returns no hit
C3_Witness ==
    /\ op = "checkHit"
    /\ ~dcall.ret.hit
    /\ \E i \in 1..Len(trophies) :
          /\ ~trophies[i].alive
          /\ \E k \in 1..Len(hitIds) : hitIds[k] = trophies[i].id
          /\ InRadius(trophies[i], dcall.x, dcall.y)

-----------------------------------------------------------------------------
(* Claims about GestureDetector                                            *)

\* C4 as stated: any two detect() calls that both return triggered are at
\* least SHOOT_COOLDOWN apart
C4_Cooldown == trigGap # -1 => trigGap >= SHOOT_COOLDOWN

\* C4, amended: two detect() calls with no reset() between them that both
\* return triggered are at least SHOOT_COOLDOWN apart
C4_CooldownNoReset == (trigGap # -1 /\ ~trigGapReset) => trigGap >= SHOOT_COOLDOWN

\* a bent-thumb frame less than SHOOT_COOLDOWN after a triggered one, with no
\* reset() in between, has not triggered
C4_Witness ==
    /\ op = "detect"
    /\ gcall.bent
    /\ ~gcall.ret.triggered
    /\ prevTrigTime >= 0
    /\ ~resetSince
    /\ now - prevTrigTime < SHOOT_COOLDOWN

\* C5: in a run of consecutive detect() calls that all see the thumb bent,
\* at most one returns triggered
C5_EdgeTriggered == runTrig <= 1

-----------------------------------------------------------------------------
(* Claims about GameManager                                                *)

\* C6: the state starts as IDLE and changes only from IDLE to PLAYING, from
\* PLAYING to GAME_OVER and from GAME_OVER to IDLE
C6_StateShape ==
    /\ state = "IDLE"
    /\ [][state' # state =>
            <<state, state'>> \in {<<"IDLE", "PLAYING">>, <<"PLAYING", "GAME_OVER">>,
                                   <<"GAME_OVER", "IDLE">>}]_vars

\* C7: timeRemaining stays within 0..60 s, and an update(dt) in PLAYING with
\* dt >= timeRemaining ends the round with timeRemaining exactly 0
C7_RoundTimer ==
    /\ timeRemaining \in 0..60000
    /\ [][/\ timeRemaining' \in 0..60000
          /\ (op' = "gmUpdate" /\ state = "PLAYING" /\ mcall'.dt >= timeRemaining)
                => (state' = "GAME_OVER" /\ timeRemaining' = 0)]_vars

\* a full round ended by one update(70)
C7_Witness ==
    /\ op = "gmUpdate"
    /\ mcall = MCall("PLAYING", 60000, 70000)
    /\ state = "GAME_OVER"
    /\ timeRemaining = 0

\* C8: the game-over callback runs once on every step from PLAYING to
\* GAME_OVER and on no other step
C8_CallbackOnce ==
    [][overCalls' = overCalls
                    + (IF state = "PLAYING" /\ state' = "GAME_OVER" THEN 1 ELSE 0)]_vars

\* an endGame() or update() made after the round was over has not run the
\* callback again
C8_Witness ==
    /\ op \in {"endGame", "gmUpdate"}
    /\ mcall.from = "GAME_OVER"
    /\ state = "GAME_OVER"
    /\ overCalls = 1

-----------------------------------------------------------------------------
(* Claims about ScoreManager                                               *)

\* The multiplier of a combo as the claim states it, in tenths
C9_Staircase(c) ==
    IF c \in 0..2 THEN 10
    ELSE IF c \in 3..4 THEN 15
    ELSE IF c \in 5..9 THEN 20
    ELSE IF c \in 10..19 THEN 30
    ELSE 50

\* C9: hit() sets combo to 1 when combo > 0 and more than 2000 ms have passed
\* since the hit before, and adds 1 to it otherwise; it returns the new combo
\* and the multiplier of the new combo
C9_ComboRule ==
    [][op' = "hit" =>
        /\ combo' = IF combo > 0 /\ now - lastHitTime > 2000 THEN 1 ELSE combo + 1
        /\ scall'.combo = combo'
        /\ scall'.multiplier = C9_Staircase(combo')]_vars

\* five hits of tier multiplier 1 in the window (100 + 100 + 150 + 150 + 200
\* points), then a sixth more than 2000 ms later that starts again at combo 1
C9_Witness ==
    /\ op = "hit"
    /\ scall.comboBefore = 5
    /\ scall.gap > 2000
    /\ combo = 1
    /\ maxCombo = 5
    /\ score = 800

\* C10: hit() and miss() never lower the score; reset() sets score, combo,
\* maxCombo and lastHitTime to 0
C10_ScoreMonotone ==
    [][/\ op' \in {"hit", "miss"} => score' >= score
       /\ op' = "reset" => (score' = 0 /\ combo' = 0 /\ maxCombo' = 0 /\ lastHitTime' = 0)]_vars

\* a reset() after hits were scored
C10_Witness ==
    /\ op = "reset"
    /\ scall.points > 0
    /\ score = 0
    /\ maxCombo = 0

\* C11: miss() sets combo to 0 whatever it was and leaves score, maxCombo and
\* lastHitTime as they were
C11_Miss ==
    [][op' = "miss" =>
        /\ combo' = 0
        /\ score' = score
        /\ maxCombo' = maxCombo
        /\ lastHitTime' = lastHitTime]_vars

\* a miss() after three hits in a row: the combo of 3 is gone, the score and
\* the maxCombo of the three hits are kept
C11_Witness ==
    /\ op = "miss"
    /\ combo = 0
    /\ scall.combo = 3
    /\ maxCombo = 3
    /\ score = 350
    /\ lastHitTime > 0

\* C12: whenever more than comboTimeout ms have passed since the last hit, the
\* combo is 0 and the multiplier is 1
C12_ComboTimeout ==
    now - lastHitTime > comboTimeout => (combo = 0 /\ getMultiplier(combo) = 10)

\* C13: detect() on landmarks that are null or fewer than 21 returns isPistol
\* false, triggered false, aimPosition null and handBase null, and leaves
\* lastShotTime as it was
C13_FailSoft ==
    [][(op' = "detect" /\ (gcall'.isNull \/ gcall'.len < 21)) =>
        /\ ~gcall'.ret.isPistol
        /\ ~gcall'.ret.triggered
        /\ ~gcall'.ret.aimPosition.some
        /\ ~gcall'.ret.handBase.some
        /\ lastShotTime' = lastShotTime]_vars

\* 20 landmarks of a pistol with the thumb bent, at a time when the cooldown of
\* an earlier shot is over: nothing is returned and nothing fires
C13_Witness ==
    /\ op = "detect"
    /\ ~gcall.isNull
    /\ gcall.len = 20
    /\ gcall.ret = noGesture
    /\ lastShotTime > 0
    /\ now - lastShotTime > SHOOT_COOLDOWN

\* C14: startGame() while PLAYING changes nothing (state, timer, score, combo
\* and trophies keep their values); update(dt) and endGame() while IDLE or
\* GAME_OVER change neither the state nor timeRemaining and do not run the
\* game-over callback
C14_MisuseNoOp ==
    [][/\ (op' = "startGame" /\ state = "PLAYING") =>
              UNCHANGED <<state, timeRemaining, overCalls, score, combo, maxCombo,
                          lastHitTime, trophies, nextId, fragments, elapsedTime>>
       /\ (op' \in {"gmUpdate", "endGame"} /\ state # "PLAYING") =>
              UNCHANGED <<state, timeRemaining, overCalls>>]_vars

\* a startGame() in the middle of a round: 35 s left, 200 points and a combo
\* of 2 scored, four trophies out, all as before the call
C14_Witness ==
    /\ op = "startGame"
    /\ mcall = MCall("PLAYING", 35000, 0)
    /\ state = "PLAYING"
    /\ timeRemaining = 35000
    /\ score = 200
    /\ combo = 2
    /\ Len(trophies) = TARGET_COUNT

\* C15: right after a start() that begins a round there are exactly
\* TARGET_COUNT alive trophies, whatever trophies existed before the call
C15_StartClears ==
    (op = "startGame" /\ mcall.from # "PLAYING") => AliveCount(trophies) = TARGET_COUNT

-----------------------------------------------------------------------------
(* Claims about ShootingSystem                                             *)

\* The discs of the last update() that lie within the assist radius of its raw aim
C16_InRange ==
    {i \in 1..Len(acall.discs) :
        AimDist2(acall.rawAim, acall.discs[i]) < 1500 * 1500}

\* C16: for a raw aim and a hand base that are not null, update() returns the
\* raw aim and is not locked when no disc is nearer than 150 px; otherwise it
\* returns the raw aim moved towards a nearest disc, at distance d < 150 px, by
\* 0.45 * (1 - d / 150) of the offset, and is locked exactly when d < 75 px
C16_AimAssist ==
    (op = "aimUpdate" /\ acall.rawAim.some /\ acall.handBase.some) =>
        LET raw == acall.rawAim
            ret == acall.ret
        IN  /\ ret.some
            /\ IF C16_InRange = {}
               THEN /\ ret.x = raw.x * AimDen
                    /\ ret.y = raw.y * AimDen
                    /\ ~isLocked
               ELSE \E i \in C16_InRange, d \in 0..1499 :
                       LET disc == acall.discs[i]
                       IN  /\ d * d = AimDist2(raw, disc)
                           /\ \A j \in C16_InRange :
                                 AimDist2(raw, disc) <= AimDist2(raw, acall.discs[j])
                           \* 0.45 * (1 - d / 150) = 45 * (1500 - d) / 150000
                           /\ (ret.x - raw.x * 150000) = (disc.x - raw.x) * 45 * (1500 - d)
                           /\ (ret.y - raw.y * 150000) = (disc.y - raw.y) * 45 * (1500 - d)
                           /\ isLocked <=> d < 750
                           /\ d = 0 => (ret.x = disc.x * 150000 /\ ret.y = disc.y * 150000 /\ isLocked)

\* a disc at exactly 75 px listed before one at 100 px: the aim is pulled
\* towards the first by 0.225 of the offset and is not locked
C16_Witness ==
    /\ op = "aimUpdate"
    /\ acall.rawAim = AimRaw
    /\ acall.handBase = AimBase
    /\ acall.discs = <<[x |-> 1450, y |-> 400], [x |-> 400, y |-> 1800]>>
    /\ acall.ret = Pos(1000 * 150000 + 450 * 33750, 1000 * 150000 - 600 * 33750)
    /\ ~isLocked

-----------------------------------------------------------------------------
(* Claims about the game as main.ts runs it                                *)

\* C17: no hit, miss or reset is applied to the ScoreManager while the state
\* is GAME_OVER or IDLE, so score and maxCombo keep the values they had when
\* the round ended until the next startGame(); the step from IDLE to PLAYING
\* sets score, combo and maxCombo to 0 and the timer to 60 s
C17_ResetAtRoundStart ==
    [][/\ (state # "PLAYING" /\ state' # "PLAYING") => UNCHANGED scoreVars
       /\ (state = "IDLE" /\ state' = "PLAYING") =>
              (score' = 0 /\ combo' = 0 /\ maxCombo' = 0 /\ timeRemaining' = 60000)]_vars

\* the second round has started: the 200 points and the maxCombo of 2 of the
\* first, kept through GAME_OVER and IDLE, are gone
C17_Witness ==
    /\ op = "pointerdown"
    /\ state = "PLAYING"
    /\ overCalls = 1
    /\ mcall = MCall("IDLE", 0, 0)
    /\ scall.combo = 2
    /\ Len(hitIds) = 2
    /\ score = 0
    /\ maxCombo = 0
    /\ timeRemaining = 60000

\* The points of the README table
C18_Readme == [bronze |-> 100, silver |-> 250, gold |-> 500]

\* C18: a hit at combo multiplier 1 awards the points of the README table:
\* bronze 100, silver 250, gold 500
C18_ReadmePoints ==
    \A k \in 1..Len(fcall.shots) :
        (fcall.shots[k].hit /\ fcall.shots[k].multiplier = 10) =>
            fcall.shots[k].points = C18_Readme[fcall.shots[k].tier]

\* C19: a frame of a round that begins before hitStopUntil skips both updates
\* (timer, state, elapsedTime and trophy positions as before, nothing spawned)
\* and any other frame of a round makes them; in either a pending tap is shot;
\* a frame with a hit leaves hitStopUntil 60 ms after it, a frame without
\* leaves hitStopUntil as it was
C19_HitStop ==
    [][(op' = "frame" /\ state = "PLAYING") =>
         /\ fcall'.frozen <=> now' < hitStopUntil
         /\ now' < hitStopUntil =>
               /\ UNCHANGED <<state, timeRemaining, elapsedTime, nextId>>
               /\ Len(trophies') = Len(trophies)
               /\ \A i \in 1..Len(trophies) :
                     /\ trophies'[i].id = trophies[i].id
                     /\ trophies'[i].screenX = trophies[i].screenX
                     /\ trophies'[i].screenY = trophies[i].screenY
         /\ now' >= hitStopUntil =>
               /\ elapsedTime' = elapsedTime + fcall'.dt
               /\ timeRemaining' = timeRemaining - fcall'.dt
         /\ tapPosition.some => Len(fcall'.shots) >= 1
         /\ hitStopUntil' = IF \E k \in 1..Len(fcall'.shots) : fcall'.shots[k].hit
                            THEN now' + 60
                            ELSE hitStopUntil]_vars

\* a frame frozen by the hit of the frame before it, in which a tap scores a
\* second hit: the freeze now lasts until 60 ms after this frame
C19_Witness ==
    /\ op = "frame"
    /\ fcall.state = "PLAYING"
    /\ fcall.frozen
    /\ Len(fcall.shots) = 1
    /\ fcall.shots[1].hit
    /\ Len(hitIds) = 2
    /\ hitStopUntil = now + 60

\* The speed bonus a trophy was spawned with: its speed is
\* (BASE_SPEED_MIN + bonus + 40) * TIER_SPEED_MULT[tier], 40 being the speed draw
C20_Bonus(t) ==
    (Max(t.velocity.x, -t.velocity.x) + Max(t.velocity.y, -t.velocity.y))
        \div TIER_SPEED_MULT[t.tier] - 100

\* C20: every trophy is spawned with the bonus min(floor(t / 30) * 15, 80) for
\* the time t since the start of the round it is spawned in (the round timer
\* has then run from 60 s down to timeRemaining); the trophies spawned by
\* start() have bonus 0 in every round
C20_RampFromRoundStart ==
    [][\A i \in 1..Len(trophies') :
          trophies'[i].id >= nextId =>
             C20_Bonus(trophies'[i]) = Min(((60000 - timeRemaining') \div 30000) * 15, 80)]_vars

\* C21: a frame of gameLoop starts the game from IDLE only when it is the
\* eighth or later of a row of frames of this IDLE period that all had the
\* pistol shape
C21_StartDebounce ==
    [][(op' = "frame" /\ state = "IDLE" /\ state' = "PLAYING") => pistolRun' >= 8]_vars

\* C22: the tap in GAME_OVER leaves no trophy and no fragment; the step that
\* enters PLAYING leaves combo 0, score 0, the timer at 60 s, no fragment and
\* exactly 4 trophies, all alive and all spawned by this step
C22_RestartResets ==
    [][/\ (op' = "pointerdown" /\ state = "GAME_OVER") =>
              (state' = "IDLE" /\ trophies' = <<>> /\ fragments' = <<>>)
       /\ (state # "PLAYING" /\ state' = "PLAYING") =>
              /\ combo' = 0
              /\ score' = 0
              /\ timeRemaining' = 60000
              /\ fragments' = <<>>
              /\ Len(trophies') = 4
              /\ \A i \in 1..4 : trophies'[i].alive /\ trophies'[i].id >= nextId]_vars

\* the second round has started, two taps after the last frame of the first:
\* that frame shot a trophy, whose fragments (0.7 s of life left) were there
\* at GAME_OVER with the trophies still flying
C22_Witness ==
    /\ op = "pointerdown"
    /\ state = "PLAYING"
    /\ overCalls = 1
    /\ mcall.from = "IDLE"
    /\ fcall.state = "PLAYING"
    /\ Len(fcall.shots) = 1
    /\ fcall.shots[1].hit
    /\ score = 0
    /\ fragments = <<>>
    /\ Len(trophies) = 4

\* C23: a detect() on a frame with the thumb bent, made 500 ms or more after
\* the detect() that fired last (no reset() since), returns triggered and
\* sets the cooldown timestamp to its own time
C23_CooldownBoundary ==
    [][(/\ op' = "detect"
        /\ gcall'.bent
        /\ prevTrigTime >= 0
        /\ ~resetSince
        /\ now' - prevTrigTime >= 500)
          => (gcall'.ret.triggered /\ lastShotTime' = now')]_vars

\* C24: when checkHit at the raw aim would have returned a hit on the
\* trophies as they are, checkHit at the aim that update() returns for these
\* trophies returns a hit
C24_AssistKeepsHit ==
    [][op' = "assistShot" =>
         (DiscAfterCheckHit(DiscNow, acall'.rawAim.x, acall'.rawAim.y).dcall.ret.hit
            => dcall'.ret.hit)]_vars

-----------------------------------------------------------------------------
(* Claims about HandTracker                                                *)

\* C25: never more than one frame is being processed; the detect() of a
\* frame of gameLoop (every second one) sends nothing and changes nothing
\* while processing is set, and sends a frame and sets processing when it is
\* not; results arriving and a failed send each clear processing
C25_Throttle ==
    [][/\ inFlight' <= 1
       /\ (op' = "frame" /\ frameCount' % 2 = 0 /\ processing) =>
              UNCHANGED <<processing, inFlight, sent, latestResults>>
       /\ (op' = "frame" /\ frameCount' % 2 = 0 /\ ~processing) =>
              (processing' /\ sent' = sent + 1 /\ inFlight' = inFlight + 1)
       /\ (op' = "frame" /\ frameCount' % 2 # 0) =>
              UNCHANGED <<processing, inFlight, sent, latestResults>>
       /\ op' \in {"results", "sendFails"} => (~processing' /\ inFlight' = 0)]_vars

\* of the detect() of frames 2, 4 and 6 one found the frame before it still
\* being processed and sent nothing; the other two sent, the second after the
\* results of the first (an open hand) had arrived
C25_Witness ==
    /\ op = "frame"
    /\ frameCount = 6
    /\ sent = 2
    /\ processing
    /\ inFlight = 1
    /\ latestResults = PalmOpen

-----------------------------------------------------------------------------
(* More claims about ScoreManager                                          *)

\* C29: a hit() made with combo > 0 continues the combo (combo + 1) when
\* isComboActive() is true at the time of the hit and restarts it at 1 when
\* isComboActive() is false
C29_ActiveAgreesWithHit ==
    [][(op' = "hit" /\ combo > 0) =>
         combo' = (IF isComboActive(ScoreNow, now') THEN combo + 1 ELSE 1)]_vars

\* C30: maxCombo >= combo >= 0 in every state; only reset() lowers maxCombo;
\* a hit() leaves combo at most 1 above what it was
C30_HighWaterMark ==
    /\ maxCombo >= combo /\ combo >= 0
    /\ [][/\ maxCombo' >= combo' /\ combo' >= 0
          /\ op' # "reset" => maxCombo' >= maxCombo
          /\ op' = "hit" => combo' <= combo + 1]_vars

\* a hit after the combo was lost at 3: it makes the combo 1 and leaves
\* maxCombo at 3
C30_Witness ==
    /\ op = "hit"
    /\ combo = 1
    /\ maxCombo = 3
    /\ scall.comboBefore = 0

-----------------------------------------------------------------------------
(* More claims about the game as main.ts runs it                           *)

\* C27: a frame of a round makes one shot for every tap made in PLAYING since
\* the frame before it (next to the shot of a pulled trigger); a tap in IDLE
\* or GAME_OVER stores no position and makes no shot; no tap position is
\* stored when the state is not PLAYING, so none is left for a later round
C27_TapShots ==
    [][/\ (op' = "frame" /\ state = "PLAYING") =>
              Len(fcall'.shots) = tapsPending + (IF gcall'.ret.triggered THEN 1 ELSE 0)
       /\ (op' = "pointerdown" /\ state # "PLAYING") =>
              UNCHANGED <<tapPosition, tapsPending, fcall, hitIds>>
       /\ state' # "PLAYING" => ~tapPosition'.some]_vars

C26_RoundEnds == (state = "PLAYING") ~> (state = "GAME_OVER")

\* a round has ended in which five trophies were shot: hits were made in
\* frozen frames, and the timer ran out all the same
C26_Witness ==
    /\ op = "frame"
    /\ state = "GAME_OVER"
    /\ overCalls = 1
    /\ Len(hitIds) = 5
    /\ now > 1000 * ROUND_DURATION + MaxLiveWait + 100

====
